---------------------------- MODULE Spec2Model ----------------------------
(***************************************************************************)
(* Model of src/python/flux_k8s/directivebreakdown.py: the resolution of   *)
(* directive breakdowns into a jobspec resource tree (apply_breakdowns,    *)
(* _apply_allocation and its helpers) and the sizing of allocation sets    *)
(* (build_allocation_sets).                                                *)
(*                                                                         *)
(* Python integers are unbounded and Python floats are IEEE-754 doubles.   *)
(* Byte counts are kept as two limbs (whole GiB, remaining bytes) and the  *)
(* floats as a 53-bit significand with a binary exponent, so that integer  *)
(* division by 1024 ** 3 and true division are computed as Python does.    *)
(***************************************************************************)
EXTENDS Integers, Sequences, FiniteSets, TLC

(***************************************************************************)
(* Arbitrary-size naturals (Python ints): sequences of 15-bit limbs, least *)
(* significant first, without leading (high) zero limbs.  <<>> is 0.       *)
(***************************************************************************)
Base == 2^15

RECURSIVE Big(_)
Big(n) == IF n = 0 THEN <<>> ELSE <<n % Base>> \o Big(n \div Base)

RECURSIVE Small(_)
Small(b) == IF b = <<>> THEN 0 ELSE b[1] + Base * Small(Tail(b))

RECURSIVE Norm(_)
Norm(b) ==
    IF b = <<>> THEN <<>>
    ELSE IF b[Len(b)] = 0 THEN Norm(SubSeq(b, 1, Len(b) - 1))
    ELSE b

Limb(b, i) == IF i <= Len(b) THEN b[i] ELSE 0

RECURSIVE AddFrom(_, _, _, _)
AddFrom(a, b, i, c) ==
    IF i > Len(a) /\ i > Len(b)
    THEN (IF c = 0 THEN <<>> ELSE <<c>>)
    ELSE LET s == Limb(a, i) + Limb(b, i) + c
         IN  <<s % Base>> \o AddFrom(a, b, i + 1, s \div Base)

BAdd(a, b) == AddFrom(a, b, 1, 0)

\* a - b, for a >= b
RECURSIVE SubFrom(_, _, _, _)
SubFrom(a, b, i, c) ==
    IF i > Len(a) THEN <<>>
    ELSE LET s == Limb(a, i) - Limb(b, i) - c
         IN  <<s % Base>> \o SubFrom(a, b, i + 1, IF s < 0 THEN 1 ELSE 0)

BSub(a, b) == Norm(SubFrom(a, b, 1, 0))

RECURSIVE CmpFrom(_, _, _)
CmpFrom(a, b, i) ==
    IF i = 0 THEN 0
    ELSE IF a[i] # b[i] THEN (IF a[i] < b[i] THEN -1 ELSE 1)
    ELSE CmpFrom(a, b, i - 1)

\* -1, 0 or 1 as a < b, a = b or a > b
BCmp(a, b) ==
    IF Len(a) # Len(b) THEN (IF Len(a) < Len(b) THEN -1 ELSE 1)
    ELSE CmpFrom(a, b, Len(a))

BLess(a, b) == BCmp(a, b) = -1

\* a * k for 0 <= k < Base
RECURSIVE MulFrom(_, _, _, _)
MulFrom(a, k, i, c) ==
    IF i > Len(a)
    THEN (IF c = 0 THEN <<>> ELSE <<c>>)
    ELSE LET s == a[i] * k + c
         IN  <<s % Base>> \o MulFrom(a, k, i + 1, s \div Base)

MulSmall(a, k) == IF k = 0 THEN <<>> ELSE MulFrom(a, k, 1, 0)

RECURSIVE BMul(_, _)
BMul(a, b) ==
    IF b = <<>> \/ a = <<>> THEN <<>>
    ELSE LET rest == BMul(a, Tail(b))
         IN  BAdd(MulSmall(a, b[1]), IF rest = <<>> THEN <<>> ELSE <<0>> \o rest)

\* [q |-> a div k, r |-> a mod k] for 1 <= k < Base, from the top limb down
RECURSIVE DivSmallFrom(_, _, _, _, _)
DivSmallFrom(a, k, i, q, r) ==
    IF i = 0 THEN [q |-> Norm(q), r |-> r]
    ELSE DivSmallFrom(a, k, i - 1,
                      <<(r * Base + a[i]) \div k>> \o q, (r * Base + a[i]) % k)

DivSmall(a, k) == DivSmallFrom(a, k, Len(a), <<>>, 0)

\* a * 2^k
ShiftL(a, k) ==
    IF a = <<>> THEN <<>>
    ELSE [i \in 1..(k \div 15) |-> 0] \o MulSmall(a, 2^(k % 15))

\* a div 2^k
ShiftR(a, k) ==
    IF k \div 15 >= Len(a) THEN <<>>
    ELSE DivSmall(SubSeq(a, (k \div 15) + 1, Len(a)), 2^(k % 15)).q

\* the number of bits of a
BitLen(a) ==
    IF a = <<>> THEN 0
    ELSE 15 * (Len(a) - 1)
            + (CHOOSE n \in 1..15 : 2^(n - 1) <= a[Len(a)] /\ a[Len(a)] < 2^n)

\* bit i of a, bit 1 the least significant
BitAt(a, i) == (Limb(a, ((i - 1) \div 15) + 1) \div 2^((i - 1) % 15)) % 2

\* a mod 2^k = 0
LowZero(a, k) ==
    /\ \A i \in 1..(k \div 15) : Limb(a, i) = 0
    /\ Limb(a, (k \div 15) + 1) % 2^(k % 15) = 0

\* the largest d < Base with b * d <= r, one bit at a time from bit j down
RECURSIVE QuotDigit(_, _, _, _)
QuotDigit(r, b, j, d) ==
    IF j < 0 THEN d
    ELSE IF BCmp(MulSmall(b, d + 2^j), r) <= 0
    THEN QuotDigit(r, b, j - 1, d + 2^j)
    ELSE QuotDigit(r, b, j - 1, d)

\* long division, one limb at a time from the top:
\* [q |-> a div b, r |-> a mod b]
RECURSIVE DivFrom(_, _, _, _, _)
DivDigit(a, b, i, q, r2, d) ==
    IF d = 0 THEN DivFrom(a, b, i - 1, <<0>> \o q, r2)
    ELSE DivFrom(a, b, i - 1, <<d>> \o q, BSub(r2, MulSmall(b, d)))

DivLimb(a, b, i, q, r2) == DivDigit(a, b, i, q, r2, QuotDigit(r2, b, 14, 0))

DivFrom(a, b, i, q, r) ==
    IF i = 0 THEN [q |-> Norm(q), r |-> r]
    ELSE DivLimb(a, b, i, q, Norm(<<a[i]>> \o r))

BDivMod(a, b) == DivFrom(a, b, Len(a), <<>>, <<>>)

(***************************************************************************)
(* Python floats.  A float is [m, q]: the value m * 2^(-q), m a 53-bit     *)
(* significand (its top bit set); zero is [m |-> <<>>, q |-> 0].  Every    *)
(* operation rounds its exact result to nearest, ties to even.  The model  *)
(* covers the non-negative normal range, which is all the program's        *)
(* arithmetic on byte counts produces.                                     *)
(***************************************************************************)
MantBits == 53

FZero == [m |-> <<>>, q |-> 0]

FOne == [m |-> ShiftL(<<1>>, MantBits - 1), q |-> MantBits - 1]

\* the float nearest to n * 2^(-q), n a natural
RoundF(n, q) ==
    LET L == BitLen(n)
    IN  IF L = 0 THEN FZero
        ELSE IF L <= MantBits
        THEN [m |-> ShiftL(n, MantBits - L), q |-> q + (MantBits - L)]
        ELSE LET d      == L - MantBits
                 kept   == ShiftR(n, d)
                 guard  == BitAt(n, d)
                 sticky == ~LowZero(n, d - 1)
                 up     == guard = 1 /\ (sticky \/ BitAt(kept, 1) = 1)
                 r      == IF up THEN BAdd(kept, <<1>>) ELSE kept
             IN  IF BitLen(r) > MantBits
                 THEN [m |-> ShiftR(r, 1), q |-> q - d - 1]
                 ELSE [m |-> r, q |-> q - d]

\* (a * 2^(-q)) / b correctly rounded, a and b naturals, b # 0: the quotient
\* is computed to more than MantBits + 2 bits and a sticky bit is appended
\* for the remainder
QuotF(a, q, b) ==
    LET k == MantBits + 2 + BitLen(b)
        d == BDivMod(ShiftL(a, k), b)
        n == BAdd(ShiftL(d.q, 1), IF d.r = <<>> THEN <<>> ELSE <<1>>)
    IN  IF a = <<>> THEN FZero ELSE RoundF(n, q + k + 1)

\* int / int (true division)
TrueDiv(a, b) == QuotF(a, 0, b)

\* float(int)
IntToFloat(a) == RoundF(a, 0)

\* float / float, y # 0
FDiv(x, y) == QuotF(x.m, x.q - y.q, y.m)

\* float * float
FMul(x, y) == RoundF(BMul(x.m, y.m), x.q + y.q)

\* float / int: the int is converted first
FDivInt(x, b) == FDiv(x, IntToFloat(b))

\* int * float: the int is converted first
FMulInt(a, x) == FMul(IntToFloat(a), x)

\* float + float
FAdd(x, y) ==
    LET q == IF x.q > y.q THEN x.q ELSE y.q
    IN  IF x.m = <<>> THEN y
        ELSE IF y.m = <<>> THEN x
        ELSE RoundF(BAdd(ShiftL(x.m, q - x.q), ShiftL(y.m, q - y.q)), q)

\* int(float): truncation
FTrunc(x) == IF x.q <= 0 THEN ShiftL(x.m, 0 - x.q) ELSE ShiftR(x.m, x.q)

(***************************************************************************)
(* Byte counts (minimumCapacity, per_compute_total): Python ints, kept as  *)
(* [gib, rem] for the value gib * 1024^3 + rem with 0 <= rem < 1024^3.     *)
(***************************************************************************)
GiB == 1024 * 1024 * 1024

Bytes(g, r) == [gib |-> g, rem |-> r]

\* a byte count as a natural, and back
BytesBig(v) == BAdd(ShiftL(Big(v.gib), 30), Big(v.rem))

BigBytes(b) == [gib |-> Small(ShiftR(b, 30)),
                rem |-> Small(SubSeq(b, 1, IF Len(b) < 2 THEN Len(b) ELSE 2))]

\* a + b
BytesAdd(a, b) == [gib |-> a.gib + b.gib + ((a.rem + b.rem) \div GiB),
                   rem |-> (a.rem + b.rem) % GiB]

\* a // b for a byte count a and a positive int b
FloorDiv(a, b) == Small(BDivMod(BytesBig(a), Big(b)).q)

Max(a, b) == IF a >= b THEN a ELSE b

(***************************************************************************)
(* Exceptions.  A call's outcome is [exc, resources]: the exception raised *)
(* (NoExc when the call returns) and the tree as the call leaves it.       *)
(***************************************************************************)
NoExc == "none"

StrategyError == "ValueError: allocationStrategy must be"

UnknownLabelError == "ValueError: Unknown label"

LabelKeyError == "KeyError: label"

StructureError == "ValueError: jobspec resources must have a single top-level 'node' entry"

TreeIndexError == "IndexError: list index out of range"

NoBreakdownsError == "ValueError: workflow has no directive breakdowns"

KindError == "ValueError: unsupported breakdown kind"

NotReadyError == "RuntimeError: Breakdown marked as not ready"

ZeroDivisionError == "ZeroDivisionError: division by zero"

\* whatever k8s_api.get_namespaced_custom_object raises
LookupFailure == "ApiException"

Outcome(e, r) == [exc |-> e, resources |-> r]

(***************************************************************************)
(* class AllocationStrategy, PER_COMPUTE_TYPES, LUSTRE_TYPES               *)
(***************************************************************************)
PER_COMPUTE == "AllocatePerCompute"

SINGLE_SERVER == "AllocateSingleServer"

ACROSS_SERVERS == "AllocateAcrossServers"

AllocationStrategy == {PER_COMPUTE, SINGLE_SERVER, ACROSS_SERVERS}

PER_COMPUTE_TYPES == {"xfs", "gfs2", "raw"}

LUSTRE_TYPES == {"ost", "mdt", "mgt"}

\* the table with mdt grouped with ost
Mut_expected_alloc_strats ==
    [xfs  |-> PER_COMPUTE,
     raw  |-> PER_COMPUTE,
     gfs2 |-> PER_COMPUTE,
     ost  |-> ACROSS_SERVERS,
     mdt  |-> ACROSS_SERVERS,
     mgt  |-> SINGLE_SERVER]

\* the dict of _apply_allocation
expected_alloc_strats ==
    [xfs  |-> PER_COMPUTE,
     raw  |-> PER_COMPUTE,
     gfs2 |-> PER_COMPUTE,
     ost  |-> ACROSS_SERVERS,
     mdt  |-> SINGLE_SERVER,
     mgt  |-> SINGLE_SERVER]

(***************************************************************************)
(* The resource tree: a Python list of dicts; index 0 of the list is       *)
(* index 1 of the sequence.                                                *)
(***************************************************************************)
_get_nnf_resource(capacity) ==
    [type  |-> "nnf",
     count |-> 1,
     with  |-> <<[type |-> "ssd", count |-> capacity, exclusive |-> TRUE]>>]

\* "=" for "+=" on the existing nnf entry
Mut_apply_alloc_per_compute(capacity, resources) ==
    IF Len(resources) = 2 /\ resources[2].type = "nnf"
    THEN Outcome(NoExc,
                 [resources EXCEPT ![2].with[1].count = capacity])
    ELSE IF Len(resources) > 1
    THEN Outcome(StructureError, resources)
    ELSE IF Len(resources) = 0
    THEN Outcome(TreeIndexError, resources)
    ELSE IF resources[1].type # "node"
    THEN Outcome(StructureError, resources)
    ELSE Outcome(NoExc, Append(resources, _get_nnf_resource(capacity)))

\* the assignment left commented out at line 130: node["count"] = 1
Mut_node_count_apply_alloc_per_compute(capacity, resources) ==
    IF Len(resources) = 2 /\ resources[2].type = "nnf"
    THEN Outcome(NoExc,
                 [resources EXCEPT ![2].with[1].count = @ + capacity])
    ELSE IF Len(resources) > 1
    THEN Outcome(StructureError, resources)
    ELSE IF Len(resources) = 0
    THEN Outcome(TreeIndexError, resources)
    ELSE IF resources[1].type # "node"
    THEN Outcome(StructureError, resources)
    ELSE Outcome(NoExc,
                 Append([resources EXCEPT ![1].count = 1],
                        _get_nnf_resource(capacity)))

_apply_alloc_per_compute(capacity, resources) ==
    IF Len(resources) = 2 /\ resources[2].type = "nnf"
    THEN Outcome(NoExc,
                 [resources EXCEPT ![2].with[1].count = @ + capacity])
    ELSE IF Len(resources) > 1
    THEN Outcome(StructureError, resources)
    ELSE IF Len(resources) = 0          \* resources[0] of an empty list
    THEN Outcome(TreeIndexError, resources)
    ELSE IF resources[1].type # "node"
    THEN Outcome(StructureError, resources)
    ELSE Outcome(NoExc, Append(resources, _get_nnf_resource(capacity)))

\* the aggregation path left commented out in _apply_lustre: add to an
\* existing globalnnf entry instead of appending
Mut_apply_lustre(capacity, resources) ==
    IF \E i \in 1..Len(resources) : resources[i].type = "globalnnf"
    THEN LET i == CHOOSE j \in 1..Len(resources) : resources[j].type = "globalnnf"
         IN  Outcome(NoExc,
                     [resources EXCEPT ![i].with[1].with[1].count = @ + capacity])
    ELSE Outcome(NoExc,
                 Append(resources,
                        [type  |-> "globalnnf",
                         count |-> 1,
                         with  |-> <<_get_nnf_resource(capacity)>>]))

_apply_lustre(capacity, resources) ==
    Outcome(NoExc,
            Append(resources,
                   [type  |-> "globalnnf",
                    count |-> 1,
                    with  |-> <<_get_nnf_resource(capacity)>>]))

\* the quotient alone, without max(1, ...)
Mut_capacity_gb(allocation) == FloorDiv(allocation.minimumCapacity, GiB)

capacity_gb(allocation) == Max(1, FloorDiv(allocation.minimumCapacity, GiB))

_apply_allocation(allocation, resources) ==
    IF allocation.label \notin DOMAIN expected_alloc_strats
    THEN Outcome(LabelKeyError, resources)     \* expected_alloc_strats[label]
    ELSE IF allocation.allocationStrategy # expected_alloc_strats[allocation.label]
    THEN Outcome(StrategyError, resources)
    ELSE IF allocation.label \in PER_COMPUTE_TYPES
    THEN _apply_alloc_per_compute(capacity_gb(allocation), resources)
    ELSE IF allocation.label \in LUSTRE_TYPES
    THEN IF allocation.label = "mgt"
         THEN _apply_lustre(capacity_gb(allocation), resources)
         ELSE Outcome(NoExc, resources)
    ELSE Outcome(UnknownLabelError, resources)

(***************************************************************************)
(* Inputs.  An allocation is a dict with label, allocationStrategy and     *)
(* minimumCapacity; "lustre" stands for any label outside the known six.   *)
(***************************************************************************)
MaxGiB == 3

MaxTree == 2

MaxCalls == 3

Labels == PER_COMPUTE_TYPES \cup LUSTRE_TYPES \cup {"lustre"}

\* minimumCapacity: 0, 100 bytes, and whole multiples of 1024^3
Capacities == {Bytes(0, 0), Bytes(0, 100)} \cup {Bytes(g, 0) : g \in 2..MaxGiB}

Allocation(l, s, c) ==
    [label |-> l, allocationStrategy |-> s, minimumCapacity |-> c]

Allocations ==
    {Allocation(l, s, c) : l \in Labels, s \in AllocationStrategy, c \in Capacities}

NodeEntry == [type |-> "node", count |-> 4]

SlotEntry == [type |-> "slot", count |-> 1]

Entries ==
    {NodeEntry, SlotEntry, _get_nnf_resource(2),
     [type |-> "globalnnf", count |-> 1, with |-> <<_get_nnf_resource(1)>>]}

Trees == UNION {[1..n -> Entries] : n \in 0..MaxTree}

(***************************************************************************)
(* Inputs of apply_breakdowns.  The workflow names its breakdowns; the     *)
(* lookup (k8s_api.get_namespaced_custom_object) answers each request with *)
(* a breakdown object or fails.  A workflow holds at most MaxAllocs        *)
(* allocations over at most MaxRefs breakdowns.                            *)
(***************************************************************************)
MaxRefs == 2

MaxAllocs == 3

Refs(n) == [i \in 1..n |-> [namespace |-> "default", name |-> i]]

\* the allocations the breakdowns carry: per-compute requests of every
\* capacity, one ost and one mgt request, one request with the wrong strategy
\* and one with an unknown label
BreakdownAllocations ==
    {Allocation("xfs", PER_COMPUTE, c) : c \in Capacities}
        \cup {Allocation("ost", ACROSS_SERVERS, Bytes(2, 0)),
              Allocation("mgt", SINGLE_SERVER, Bytes(2, 0)),
              Allocation("gfs2", SINGLE_SERVER, Bytes(0, 100)),
              Allocation("lustre", ACROSS_SERVERS, Bytes(0, 100))}

AllocationSets == UNION {[1..n -> BreakdownAllocations] : n \in 0..MaxAllocs}

Breakdown(k, r, s) == [kind |-> k, status |-> [ready |-> r, allocationSet |-> s]]

Breakdowns ==
    {Breakdown(k, r, s) : k \in {"DirectiveBreakdown", "Workflow"},
                          r \in BOOLEAN, s \in AllocationSets}

RECURSIVE CountAllocations(_)
CountAllocations(list) ==
    IF list = <<>> THEN 0
    ELSE Len(list[1].status.allocationSet) + CountAllocations(Tail(list))

\* the dict d with d[k] = v set
SetKey(d, k, v) == [f \in DOMAIN d \cup {k} |-> IF f = k THEN v ELSE d[f]]

VARIABLES
    resources,      \* the jobspec's resources list
    resources0,     \* the list as the caller passed it
    last_call,      \* <<>> or <<[allocation, before, exc]>>: the last _apply_allocation call
    ncalls,         \* _apply_allocation calls made
    all_valid_pc,   \* every call so far was a per-compute allocation with its mandated strategy
    cap_sum,        \* sum of max(1, whole GiB of minimumCapacity) over the calls
    n_mgt,          \* calls with label mgt and its mandated strategy
    workflow,       \* workflow["status"]["directiveBreakdowns"]
    lookups,        \* the references the lookup was asked for, in order
    breakdown_list, \* apply_breakdowns: breakdown_list
    per_compute_total,
    pc,             \* where apply_breakdowns is: fetch, check, apply, annotate, returned, raised
    bi,             \* index of the breakdown the current loop is at
    ai,             \* index of the allocation within it
    exc,            \* the exception raised, NoExc if none
    allocation_sets,   \* build_allocation_sets: its three arguments
    local_allocations, \* a dict in insertion order: <<[name, bytes], ...>>
    nodes_per_nnf,
    ret,               \* build_allocation_sets: ret
    si                 \* index of the server the inner loop is at

callVars == <<last_call, ncalls, all_valid_pc, cap_sum, n_mgt>>

bdVars == <<workflow, lookups, breakdown_list, per_compute_total, pc, bi, ai, exc>>

buildVars == <<allocation_sets, local_allocations, nodes_per_nnf, ret, si>>

vars == <<resources, resources0, callVars, bdVars, buildVars>>

IsValid(a) ==
    /\ a.label \in PER_COMPUTE_TYPES \cup LUSTRE_TYPES
    /\ \/ a.label \in {"xfs", "raw", "gfs2"} /\ a.allocationStrategy = "AllocatePerCompute"
       \/ a.label = "ost" /\ a.allocationStrategy = "AllocateAcrossServers"
       \/ a.label \in {"mdt", "mgt"} /\ a.allocationStrategy = "AllocateSingleServer"

IsValidPerCompute(a) == IsValid(a) /\ a.label \in {"xfs", "raw", "gfs2"}

NoBuild ==
    /\ allocation_sets = <<>>
    /\ local_allocations = <<>>
    /\ nodes_per_nnf = <<>>
    /\ ret = <<>>
    /\ si = 0

\* the bookkeeping of one _apply_allocation(a, resources) call
Record(a, o) ==
    /\ resources' = o.resources
    /\ last_call' = <<[allocation |-> a, before |-> resources, exc |-> o.exc]>>
    /\ ncalls' = ncalls + 1
    /\ all_valid_pc' = (all_valid_pc /\ IsValidPerCompute(a))
    /\ cap_sum' = cap_sum + (IF a.minimumCapacity.gib = 0 THEN 1 ELSE a.minimumCapacity.gib)
    /\ n_mgt' = n_mgt + (IF IsValid(a) /\ a.label = "mgt" THEN 1 ELSE 0)

NoCalls ==
    /\ last_call = <<>>
    /\ ncalls = 0
    /\ all_valid_pc = TRUE
    /\ cap_sum = 0
    /\ n_mgt = 0

(***************************************************************************)
(* SpecAlloc: a caller applies allocations one after another to a tree.    *)
(***************************************************************************)
InitAlloc ==
    /\ resources \in Trees
    /\ resources0 = resources
    /\ NoCalls
    /\ workflow = <<>>
    /\ lookups = <<>>
    /\ breakdown_list = <<>>
    /\ per_compute_total = Bytes(0, 0)
    /\ pc = "idle"
    /\ bi = 0
    /\ ai = 0
    /\ exc = NoExc
    /\ NoBuild

CallApplyAllocation ==
    /\ pc = "idle"
    /\ ncalls < MaxCalls
    /\ \E a \in Allocations :
           Record(a, _apply_allocation(a, resources))
    /\ UNCHANGED <<resources0, bdVars, buildVars>>

NextAlloc == CallApplyAllocation

SpecAlloc == InitAlloc /\ [][NextAlloc]_vars

(***************************************************************************)
(* SpecCap: one call of _apply_allocation with a valid allocation that     *)
(* mutates the tree, over a range of minimumCapacity values around the     *)
(* multiples of 1024 ** 3.                                                 *)
(***************************************************************************)
MaxCapGiB == 8

CapacityInputs ==
    {Bytes(g, r) : g \in 0..MaxCapGiB, r \in {0, 1, 100, GiB - 1}}

InitCap ==
    /\ resources \in {<<NodeEntry>>, <<NodeEntry, _get_nnf_resource(2)>>}
    /\ resources0 = resources
    /\ NoCalls
    /\ workflow = <<>>
    /\ lookups = <<>>
    /\ breakdown_list = <<>>
    /\ per_compute_total = Bytes(0, 0)
    /\ pc = "convert"
    /\ bi = 0
    /\ ai = 0
    /\ exc = NoExc
    /\ NoBuild

CallWithCapacity ==
    /\ pc = "convert"
    /\ ncalls = 0
    /\ \E l \in {"xfs", "gfs2", "raw", "mgt"}, c \in CapacityInputs :
           Record(Allocation(l, expected_alloc_strats[l], c),
                  _apply_allocation(Allocation(l, expected_alloc_strats[l], c),
                                    resources))
    /\ UNCHANGED <<resources0, bdVars, buildVars>>

NextCap == CallWithCapacity

SpecCap == InitCap /\ [][NextCap]_vars

(***************************************************************************)
(* Spec: one call apply_breakdowns(k8s_api, workflow, resources).          *)
(***************************************************************************)
Init ==
    /\ resources \in {<<NodeEntry>>, <<NodeEntry, _get_nnf_resource(2)>>}
    /\ resources0 = resources
    /\ NoCalls
    /\ workflow \in {Refs(n) : n \in 0..MaxRefs}
    /\ lookups = <<>>
    /\ breakdown_list = <<>>
    /\ per_compute_total = Bytes(0, 0)
    /\ pc = "fetch"
    /\ bi = 0
    /\ ai = 0
    /\ exc = NoExc
    /\ NoBuild

Raise(e) ==
    /\ exc' = e
    /\ pc' = "raised"

\* no check of the reference list: list() of nothing, and the empty list is
\* returned
Mut_FetchNoBreakdowns ==
    /\ pc = "fetch"
    /\ workflow = <<>>
    /\ pc' = "returned"
    /\ UNCHANGED buildVars
    /\ UNCHANGED <<resources, resources0, callVars, workflow, lookups,
                   breakdown_list, per_compute_total, bi, ai, exc>>

\* _fetch_breakdowns: the check of the reference list, made when list()
\* first asks the generator for a value
FetchNoBreakdowns ==
    /\ pc = "fetch"
    /\ workflow = <<>>
    /\ Raise(NoBreakdownsError)
    /\ UNCHANGED buildVars
    /\ UNCHANGED <<resources, resources0, callVars, workflow, lookups,
                   breakdown_list, per_compute_total, bi, ai>>

\* _fetch_breakdowns: one lookup, which answers
FetchBreakdown ==
    /\ pc = "fetch"
    /\ Len(breakdown_list) < Len(workflow)
    /\ lookups' = Append(lookups, workflow[Len(breakdown_list) + 1])
    /\ \E b \in Breakdowns :
           /\ CountAllocations(breakdown_list) + Len(b.status.allocationSet) <= MaxAllocs
           /\ breakdown_list' = Append(breakdown_list, b)
    /\ IF Len(breakdown_list') = Len(workflow)
       THEN pc' = "check" /\ bi' = 1
       ELSE UNCHANGED <<pc, bi>>
    /\ UNCHANGED buildVars
    /\ UNCHANGED <<resources, resources0, callVars, workflow,
                   per_compute_total, ai, exc>>

\* a failed lookup is swallowed and the same reference is asked for again
Mut_FetchFails ==
    /\ pc = "fetch"
    /\ Len(breakdown_list) < Len(workflow)
    /\ Len(lookups) <= Len(workflow)
    /\ lookups' = Append(lookups, workflow[Len(breakdown_list) + 1])
    /\ UNCHANGED buildVars
    /\ UNCHANGED <<resources, resources0, callVars, workflow,
                   breakdown_list, per_compute_total, pc, bi, ai, exc>>

\* _fetch_breakdowns: one lookup, which fails
FetchFails ==
    /\ pc = "fetch"
    /\ Len(breakdown_list) < Len(workflow)
    /\ lookups' = Append(lookups, workflow[Len(breakdown_list) + 1])
    /\ Raise(LookupFailure)
    /\ UNCHANGED buildVars
    /\ UNCHANGED <<resources, resources0, callVars, workflow,
                   breakdown_list, per_compute_total, bi, ai>>

\* the kind check alone
Mut_CheckBreakdown ==
    /\ pc = "check"
    /\ bi <= Len(breakdown_list)
    /\ LET breakdown == breakdown_list[bi]
       IN  IF breakdown.kind # "DirectiveBreakdown"
           THEN Raise(KindError) /\ UNCHANGED ai
           ELSE pc' = "apply" /\ ai' = 1 /\ UNCHANGED exc
    /\ UNCHANGED buildVars
    /\ UNCHANGED <<resources, resources0, callVars, workflow, lookups,
                   breakdown_list, per_compute_total, bi>>

\* first loop: the kind and ready checks of breakdown bi
CheckBreakdown ==
    /\ pc = "check"
    /\ bi <= Len(breakdown_list)
    /\ LET breakdown == breakdown_list[bi]
       IN  IF breakdown.kind # "DirectiveBreakdown"
           THEN Raise(KindError) /\ UNCHANGED ai
           ELSE IF ~breakdown.status.ready
           THEN Raise(NotReadyError) /\ UNCHANGED ai
           ELSE pc' = "apply" /\ ai' = 1 /\ UNCHANGED exc
    /\ UNCHANGED buildVars
    /\ UNCHANGED <<resources, resources0, callVars, workflow, lookups,
                   breakdown_list, per_compute_total, bi>>

\* every label's capacity added to the total
Mut_aggregate_per_compute(total, allocation) ==
    BytesAdd(total, allocation.minimumCapacity)

\* first loop: "aggregate per-compute storage"
aggregate_per_compute(total, allocation) ==
    IF allocation.label \in PER_COMPUTE_TYPES
    THEN BytesAdd(total, allocation.minimumCapacity)
    ELSE total

\* a failing allocation undoes the mutations made so far
Mut_ApplyAllocation ==
    /\ pc = "apply"
    /\ ai <= Len(breakdown_list[bi].status.allocationSet)
    /\ LET allocation == breakdown_list[bi].status.allocationSet[ai]
           o == _apply_allocation(allocation, resources)
       IN  /\ Record(allocation,
                     IF o.exc # NoExc THEN Outcome(o.exc, resources0) ELSE o)
           /\ IF o.exc # NoExc
              THEN Raise(o.exc) /\ UNCHANGED <<per_compute_total, ai>>
              ELSE /\ per_compute_total' =
                          aggregate_per_compute(per_compute_total, allocation)
                   /\ ai' = ai + 1
                   /\ UNCHANGED <<pc, exc>>
    /\ UNCHANGED buildVars
    /\ UNCHANGED <<resources0, workflow, lookups, breakdown_list, bi>>

\* first loop: one allocation of breakdown bi
ApplyAllocation ==
    /\ pc = "apply"
    /\ ai <= Len(breakdown_list[bi].status.allocationSet)
    /\ LET allocation == breakdown_list[bi].status.allocationSet[ai]
           o == _apply_allocation(allocation, resources)
       IN  /\ Record(allocation, o)
           /\ IF o.exc # NoExc
              THEN Raise(o.exc) /\ UNCHANGED <<per_compute_total, ai>>
              ELSE /\ per_compute_total' =
                          aggregate_per_compute(per_compute_total, allocation)
                   /\ ai' = ai + 1
                   /\ UNCHANGED <<pc, exc>>
    /\ UNCHANGED buildVars
    /\ UNCHANGED <<resources0, workflow, lookups, breakdown_list, bi>>

\* the second loop starts as soon as one breakdown has been applied
Mut_NextBreakdown ==
    /\ pc = "apply"
    /\ ai > Len(breakdown_list[bi].status.allocationSet)
    /\ bi' = 1
    /\ pc' = "annotate"
    /\ ai' = 1
    /\ UNCHANGED buildVars
    /\ UNCHANGED <<resources, resources0, callVars, workflow, lookups,
                   breakdown_list, per_compute_total, exc>>

\* first loop: the allocation set of breakdown bi is exhausted
NextBreakdown ==
    /\ pc = "apply"
    /\ ai > Len(breakdown_list[bi].status.allocationSet)
    /\ bi' = IF bi < Len(breakdown_list) THEN bi + 1 ELSE 1
    /\ pc' = IF bi < Len(breakdown_list) THEN "check" ELSE "annotate"
    /\ ai' = 1
    /\ UNCHANGED buildVars
    /\ UNCHANGED <<resources, resources0, callVars, workflow, lookups,
                   breakdown_list, per_compute_total, exc>>

\* second loop: one allocation of breakdown bi
AnnotateAllocation ==
    /\ pc = "annotate"
    /\ ai <= Len(breakdown_list[bi].status.allocationSet)
    /\ LET allocation == breakdown_list[bi].status.allocationSet[ai]
       IN  IF allocation.label \in PER_COMPUTE_TYPES
           THEN IF per_compute_total = Bytes(0, 0)
                THEN Raise(ZeroDivisionError) /\ UNCHANGED <<breakdown_list, ai>>
                ELSE /\ breakdown_list' =
                            [breakdown_list EXCEPT ![bi].status.allocationSet[ai] =
                                SetKey(allocation, "percentage_of_total",
                                       TrueDiv(BytesBig(allocation.minimumCapacity),
                                               BytesBig(per_compute_total)))]
                     /\ ai' = ai + 1
                     /\ UNCHANGED <<pc, exc>>
           ELSE ai' = ai + 1 /\ UNCHANGED <<breakdown_list, pc, exc>>
    /\ UNCHANGED buildVars
    /\ UNCHANGED <<resources, resources0, callVars, workflow, lookups,
                   per_compute_total, bi>>

\* second loop: the allocation set of breakdown bi is exhausted; after the
\* last one apply_breakdowns returns breakdown_list
AnnotateNextBreakdown ==
    /\ pc = "annotate"
    /\ ai > Len(breakdown_list[bi].status.allocationSet)
    /\ IF bi < Len(breakdown_list)
       THEN bi' = bi + 1 /\ ai' = 1 /\ UNCHANGED pc
       ELSE pc' = "returned" /\ UNCHANGED <<bi, ai>>
    /\ UNCHANGED buildVars
    /\ UNCHANGED <<resources, resources0, callVars, workflow, lookups,
                   breakdown_list, per_compute_total, exc>>

Next ==
    \/ FetchNoBreakdowns
    \/ FetchBreakdown
    \/ FetchFails
    \/ CheckBreakdown
    \/ ApplyAllocation
    \/ NextBreakdown
    \/ AnnotateAllocation
    \/ AnnotateNextBreakdown

Spec == Init /\ [][Next]_vars

(***************************************************************************)
(* SpecBuild: one call                                                     *)
(* build_allocation_sets(allocation_sets, local_allocations, nodes_per_nnf)*)
(* An allocation here carries label, percentage_of_total (a float) and     *)
(* minimumCapacity; local_allocations maps a server name to bytes and is   *)
(* iterated in insertion order; nodes_per_nnf maps a name to a node count. *)
(***************************************************************************)
CapacityError == "RuntimeError: Expected an allocation size of at least"

NotSupportedError == "ValueError: not currently supported"

MaxSets == 2

MaxNodes == 2

ServerNames == {"nnfA", "nnfB"}

ServerBytes == {600, 1000}

Percentages == {TrueDiv(Big(1), Big(2)), TrueDiv(Big(1), Big(3)), FOne}

MinimumCapacities == {200, 300}

BuildAllocations ==
    {[label |-> l, percentage_of_total |-> p, minimumCapacity |-> c] :
        l \in {"xfs", "ost"}, p \in Percentages, c \in MinimumCapacities}

BuildAllocationSets == UNION {[1..n -> BuildAllocations] : n \in 0..MaxSets}

LocalAllocations ==
    {<<>>}
        \cup {<<[name |-> n, bytes |-> b]>> : n \in ServerNames, b \in ServerBytes}
        \cup {<<[name |-> n[1], bytes |-> b[1]], [name |-> n[2], bytes |-> b[2]]>> :
                 n \in {x \in ServerNames \X ServerNames : x[1] # x[2]},
                 b \in ServerBytes \X ServerBytes}

NodesPerNnf == [ServerNames -> 1..MaxNodes]

InitBuild ==
    /\ resources = <<>>
    /\ resources0 = <<>>
    /\ NoCalls
    /\ workflow = <<>>
    /\ lookups = <<>>
    /\ breakdown_list = <<>>
    /\ per_compute_total = Bytes(0, 0)
    /\ pc = "build"
    /\ bi = 0
    /\ ai = 1
    /\ exc = NoExc
    /\ allocation_sets \in BuildAllocationSets
    /\ local_allocations \in LocalAllocations
    /\ nodes_per_nnf \in NodesPerNnf
    /\ ret = <<>>
    /\ si = 1

\* int(local_allocations[nnf_name] * allocation["percentage_of_total"]
\*     / nodes_per_nnf[nnf_name])
alloc_size(allocation, server, nodes) ==
    Small(FTrunc(FDivInt(FMulInt(Big(server.bytes), allocation.percentage_of_total),
                         Big(nodes[server.name]))))

\* "<=" for "<"
Mut_below_minimum(size, allocation) == size <= allocation.minimumCapacity

\* alloc_size < allocation["minimumCapacity"]
below_minimum(size, allocation) == size < allocation.minimumCapacity

\* the dict appended to ret
AllocationSetEntry(size, allocation, server, nodes) ==
    [allocationSize |-> size,
     label          |-> allocation.label,
     storage        |-> <<[allocationCount |-> nodes[server.name],
                           name            |-> server.name]>>]

\* the body of the inner loop for allocation ai and server si
BuildEntry ==
    /\ pc = "build"
    /\ ai <= Len(allocation_sets)
    /\ si <= Len(local_allocations)
    /\ LET allocation == allocation_sets[ai]
           server     == local_allocations[si]
       IN  IF allocation.label \in PER_COMPUTE_TYPES
           THEN IF below_minimum(alloc_size(allocation, server, nodes_per_nnf),
                                 allocation)
                THEN Raise(CapacityError) /\ UNCHANGED <<ret, si>>
                ELSE /\ ret' = Append(ret,
                                      AllocationSetEntry(
                                          alloc_size(allocation, server, nodes_per_nnf),
                                          allocation, server, nodes_per_nnf))
                     /\ si' = si + 1
                     /\ UNCHANGED <<pc, exc>>
           ELSE Raise(NotSupportedError) /\ UNCHANGED <<ret, si>>
    /\ UNCHANGED <<resources, resources0, callVars, workflow, lookups,
                   breakdown_list, per_compute_total, bi, ai,
                   allocation_sets, local_allocations, nodes_per_nnf>>

\* the inner loop is exhausted: on to the next allocation
BuildNextAllocation ==
    /\ pc = "build"
    /\ ai <= Len(allocation_sets)
    /\ si > Len(local_allocations)
    /\ ai' = ai + 1
    /\ si' = 1
    /\ UNCHANGED <<resources, resources0, callVars, workflow, lookups,
                   breakdown_list, per_compute_total, bi, pc, exc,
                   allocation_sets, local_allocations, nodes_per_nnf, ret>>

\* the outer loop is exhausted: return ret
BuildReturn ==
    /\ pc = "build"
    /\ ai > Len(allocation_sets)
    /\ pc' = "returned"
    /\ UNCHANGED <<resources, resources0, callVars, workflow, lookups,
                   breakdown_list, per_compute_total, bi, ai, exc, buildVars>>

NextBuild ==
    \/ BuildEntry
    \/ BuildNextAllocation
    \/ BuildReturn

SpecBuild == InitBuild /\ [][NextBuild]_vars

(***************************************************************************)
(* Properties of _apply_allocation, checked under SpecAlloc.               *)
(***************************************************************************)
Called == last_call # <<>>

TheCall == last_call[1]

NnfOf(n) ==
    [type |-> "nnf", count |-> 1,
     with |-> <<[type |-> "ssd", count |-> n, exclusive |-> TRUE]>>]

GlobalNnfOf(n) == [type |-> "globalnnf", count |-> 1, with |-> <<NnfOf(n)>>]

\* whole GiB of a byte count, at least 1
CapacityGiB(c) == IF c.gib = 0 THEN 1 ELSE c.gib

CountType(tree, t) == Cardinality({i \in 1..Len(tree) : tree[i].type = t})

\* C1: starting from exactly [node], every non-empty sequence of valid
\* per-compute allocations succeeds and leaves [node, nnf] with the nnf's ssd
\* count the sum of the capacities applied; no second nnf entry is appended.
C1_PerComputeAggregates ==
    (resources0 = <<NodeEntry>> /\ ncalls >= 1 /\ all_valid_pc) =>
        /\ TheCall.exc = NoExc
        /\ resources = <<NodeEntry, NnfOf(cap_sum)>>

C1_Witness ==
    /\ resources0 = <<NodeEntry>>
    /\ all_valid_pc
    /\ ncalls = 2
    /\ cap_sum = 5
    /\ resources = <<NodeEntry, NnfOf(5)>>

\* C2: an allocation with one of the six known labels whose strategy is not
\* the one mandated for the label fails with the strategy validation error
\* and leaves the tree as it was, whatever the tree.
C2_StrategyMismatchFails ==
    (/\ Called
     /\ TheCall.allocation.label \in {"xfs", "raw", "gfs2", "ost", "mdt", "mgt"}
     /\ ~IsValid(TheCall.allocation)) =>
        /\ TheCall.exc = StrategyError
        /\ resources = TheCall.before

C2_Witness ==
    /\ Called
    /\ TheCall.allocation.label = "mdt"
    /\ TheCall.allocation.allocationStrategy = "AllocateAcrossServers"
    /\ TheCall.before = <<NodeEntry, NnfOf(2)>>
    /\ TheCall.exc = StrategyError

IsSingleNode(tree) == Len(tree) = 1 /\ tree[1].type = "node"

IsNodePlusNnf(tree) == Len(tree) = 2 /\ tree[2].type = "nnf"

\* C3: a valid per-compute allocation applied to a tree that is neither
\* exactly [node] nor a two-entry tree ending in nnf fails with the structural
\* error and leaves the tree unchanged (the empty tree included).
C3_OtherShapesStructuralError ==
    (/\ Called
     /\ IsValidPerCompute(TheCall.allocation)
     /\ ~IsSingleNode(TheCall.before)
     /\ ~IsNodePlusNnf(TheCall.before)) =>
        /\ TheCall.exc = StructureError
        /\ resources = TheCall.before

\* C9: a valid ost or mdt allocation leaves the tree unchanged; a valid mgt
\* allocation appends one globalnnf entry (count 1, one nnf of the capacity)
\* and changes no existing entry, so k mgt allocations add exactly k globalnnf
\* entries.
C9_LustreFrame ==
    /\ (Called /\ IsValid(TheCall.allocation)
               /\ TheCall.allocation.label \in {"ost", "mdt"}) =>
           /\ TheCall.exc = NoExc
           /\ resources = TheCall.before
    /\ (Called /\ IsValid(TheCall.allocation)
               /\ TheCall.allocation.label = "mgt") =>
           /\ TheCall.exc = NoExc
           /\ resources =
                  Append(TheCall.before,
                         GlobalNnfOf(CapacityGiB(TheCall.allocation.minimumCapacity)))
    /\ CountType(resources, "globalnnf") = CountType(resources0, "globalnnf") + n_mgt

C9_Witness ==
    /\ Called
    /\ TheCall.allocation.label = "mgt"
    /\ n_mgt = 2
    /\ CountType(resources0, "globalnnf") = 1
    /\ CountType(resources, "globalnnf") = 3

\* C10: an allocation whose label is none of the six known ones fails with
\* the "Unknown label" validation error and leaves the tree unchanged.
C10_UnknownLabelError ==
    (Called /\ TheCall.allocation.label
                   \notin {"xfs", "gfs2", "raw", "ost", "mdt", "mgt"}) =>
        /\ TheCall.exc = UnknownLabelError
        /\ resources = TheCall.before

(***************************************************************************)
(* Properties of apply_breakdowns, checked under Spec.                     *)
(***************************************************************************)
\* apply_breakdowns has raised, or it is not over: a step of a loop over an
\* allocation is total (it goes on or raises), the other steps are enabled
RaisedOrRunning ==
    \/ pc = "raised"
    \/ pc \in {"apply", "annotate"} /\ ai <= Len(breakdown_list[bi].status.allocationSet)
    \/ ENABLED (\/ FetchNoBreakdowns
                \/ FetchFails
                \/ CheckBreakdown
                \/ NextBreakdown
                \/ AnnotateNextBreakdown)

\* C5: with an empty reference list apply_breakdowns raises the "no
\* directive breakdowns" error, the lookup is never called and the tree is
\* unchanged.
C5_EmptyWorkflowFails ==
    workflow = <<>> =>
        /\ lookups = <<>>
        /\ resources = resources0
        /\ pc \in {"fetch", "raised"}
        /\ pc = "raised" => exc = NoBreakdownsError
        /\ RaisedOrRunning

C5_Witness ==
    /\ workflow = <<>>
    /\ pc = "raised"
    /\ exc = NoBreakdownsError
    /\ lookups = <<>>

\* C4: if a fetched breakdown is not ready, apply_breakdowns fails (it never
\* returns), and no allocation of that breakdown or of a later one is applied.
C4_NotReadyGate ==
    \A k \in 1..Len(breakdown_list) :
        ~breakdown_list[k].status.ready =>
            /\ pc \in {"fetch", "check", "apply", "raised"}
            /\ pc = "check" => bi <= k
            /\ pc = "apply" => bi < k
            /\ ncalls <= CountAllocations(SubSeq(breakdown_list, 1, k - 1))
            /\ RaisedOrRunning

C4_Witness ==
    /\ Len(breakdown_list) = 2
    /\ breakdown_list[1].status.ready
    /\ ~breakdown_list[2].status.ready
    /\ breakdown_list[2].kind = "DirectiveBreakdown"
    /\ Len(breakdown_list[2].status.allocationSet) = 1
    /\ IsValid(breakdown_list[2].status.allocationSet[1])
    /\ pc = "raised"
    /\ exc = NotReadyError
    /\ ncalls = 1

RECURSIVE Flatten(_)
Flatten(list) ==
    IF list = <<>> THEN <<>>
    ELSE list[1].status.allocationSet \o Flatten(Tail(list))

IsPerCompute(a) == a.label \in {"xfs", "gfs2", "raw"}

\* S: the sum of minimumCapacity over the per-compute allocations
RECURSIVE SumPerCompute(_)
SumPerCompute(as) ==
    IF as = <<>> THEN Bytes(0, 0)
    ELSE BytesAdd(IF IsPerCompute(as[1]) THEN as[1].minimumCapacity ELSE Bytes(0, 0),
                  SumPerCompute(Tail(as)))

HasPercentage(a) == "percentage_of_total" \in DOMAIN a

PerComputeOf(as) == {i \in 1..Len(as) : IsPerCompute(as[i])}

\* the float sum of the percentages, added up in order from 0.0
RECURSIVE FloatSum(_, _)
FloatSum(as, acc) ==
    IF as = <<>> THEN acc
    ELSE FloatSum(Tail(as),
                  IF HasPercentage(as[1])
                  THEN FAdd(acc, as[1].percentage_of_total)
                  ELSE acc)

\* C6 as stated: after a successful return every per-compute allocation has
\* percentageOfTotal with percentage * S = minimumCapacity exactly, the
\* percentages sum to exactly 1, and ost/mdt/mgt allocations add nothing to
\* S and get no percentage.  The product and the sum are taken as Python
\* computes them, in floats.
C6_ExactPercentages ==
    pc = "returned" =>
        LET as == Flatten(breakdown_list)
            S  == BytesBig(SumPerCompute(as))
        IN  /\ \A i \in 1..Len(as) :
                   IF IsPerCompute(as[i])
                   THEN /\ HasPercentage(as[i])
                        /\ FMulInt(S, as[i].percentage_of_total)
                               = RoundF(BytesBig(as[i].minimumCapacity), 0)
                   ELSE ~HasPercentage(as[i])
            /\ PerComputeOf(as) # {} => FloatSum(as, FZero) = FOne

\* p is a float nearest to m / S: zero for m = 0, else a 53-bit significand
\* M and an exponent q with |M * S - m * 2^q| <= S / 2
IsNearest(p, m, S) ==
    IF m = <<>> THEN p = FZero
    ELSE /\ BitLen(p.m) = MantBits
         /\ p.q >= 0
         /\ LET l == BMul(p.m, S)
                r == ShiftL(m, p.q)
                d == IF BLess(l, r) THEN BSub(r, l) ELSE BSub(l, r)
            IN  ~BLess(S, ShiftL(d, 1))

MaxQ(as) ==
    LET qs == {as[i].percentage_of_total.q : i \in PerComputeOf(as)}
    IN  CHOOSE q \in qs : \A r \in qs : r <= q

\* the exact sum of the percentages, in units of 2^(-Q)
RECURSIVE ExactSum(_, _)
ExactSum(as, Q) ==
    IF as = <<>> THEN <<>>
    ELSE BAdd(IF HasPercentage(as[1])
              THEN ShiftL(as[1].percentage_of_total.m,
                          Q - as[1].percentage_of_total.q)
              ELSE <<>>,
              ExactSum(Tail(as), Q))

\* |sum of the percentages - 1| <= n * 2^(-54), n the number of percentages
SumNearOne(as) ==
    LET Q   == Max(MaxQ(as), MantBits + 1)
        sum == ExactSum(as, Q)
        one == ShiftL(<<1>>, Q)
        d   == IF BLess(sum, one) THEN BSub(one, sum) ELSE BSub(sum, one)
    IN  ~BLess(ShiftL(Big(Cardinality(PerComputeOf(as))), Q - (MantBits + 1)), d)

\* C6, amended: after a successful return every per-compute allocation has
\* percentageOfTotal = the double nearest to minimumCapacity / S, S the sum of
\* minimumCapacity over the per-compute allocations, so the percentages sum
\* to 1 within n * 2^(-54); ost/mdt/mgt allocations add nothing to S and get
\* no percentage.
C6_RoundedPercentages ==
    pc = "returned" =>
        LET as == Flatten(breakdown_list)
            S  == BytesBig(SumPerCompute(as))
        IN  /\ \A i \in 1..Len(as) :
                   IF IsPerCompute(as[i])
                   THEN /\ HasPercentage(as[i])
                        /\ IsNearest(as[i].percentage_of_total,
                                     BytesBig(as[i].minimumCapacity), S)
                   ELSE ~HasPercentage(as[i])
            /\ PerComputeOf(as) # {} => SumNearOne(as)

C6_Witness ==
    /\ pc = "returned"
    /\ Len(breakdown_list) = 2
    /\ LET as == Flatten(breakdown_list)
       IN  /\ Len(as) = 3
           /\ as[1].label = "xfs" /\ as[1].minimumCapacity = Bytes(0, 100)
           /\ as[2].label = "xfs" /\ as[2].minimumCapacity = Bytes(3, 0)
           /\ as[3].label = "mgt"
           /\ HasPercentage(as[1]) /\ HasPercentage(as[2])
           /\ ~HasPercentage(as[3])

\* apply_breakdowns' first loop over one allocation list, as a function: the
\* outcome of applying the allocations in order, stopping at the first error
RECURSIVE ApplySet(_, _)
ApplySet(as, tree) ==
    IF as = <<>> THEN Outcome(NoExc, tree)
    ELSE IF _apply_allocation(as[1], tree).exc # NoExc
    THEN _apply_allocation(as[1], tree)
    ELSE ApplySet(Tail(as), _apply_allocation(as[1], tree).resources)

\* apply_breakdowns on a list of ready DirectiveBreakdown objects: both loops
Resolve(list, tree) ==
    IF ApplySet(Flatten(list), tree).exc # NoExc
    THEN ApplySet(Flatten(list), tree)
    ELSE IF PerComputeOf(Flatten(list)) # {}
            /\ SumPerCompute(Flatten(list)) = Bytes(0, 0)
    THEN Outcome(ZeroDivisionError, ApplySet(Flatten(list), tree).resources)
    ELSE ApplySet(Flatten(list), tree)

\* the allocation set in the order p, a permutation of its indices
Reorder(as, p) == [i \in 1..Len(as) |-> as[p[i]]]

\* the ssd count of the per-compute nnf entry, 0 without one
NnfCapacity(tree) ==
    IF Len(tree) >= 2 /\ tree[2].type = "nnf" THEN tree[2].with[1].count ELSE 0

AllReadyAndValid ==
    /\ Len(breakdown_list) = Len(workflow)
    /\ \A k \in 1..Len(breakdown_list) :
           /\ breakdown_list[k].kind = "DirectiveBreakdown"
           /\ breakdown_list[k].status.ready
           /\ \A i \in 1..Len(breakdown_list[k].status.allocationSet) :
                  IsValid(breakdown_list[k].status.allocationSet[i])

\* C8: the order of the allocations within an allocationSet does not change
\* the outcome: from the tree [node], apply_breakdowns on any reordering of
\* the same valid allocations fails if it failed and succeeds if it
\* succeeded, with the same per-compute nnf capacity and the same number of
\* globalnnf entries.
C8_OrderIrrelevant ==
    (/\ pc \in {"returned", "raised"}
     /\ resources0 = <<NodeEntry>>
     /\ AllReadyAndValid) =>
        \A k \in 1..Len(breakdown_list) :
            \A p \in Permutations(1..Len(breakdown_list[k].status.allocationSet)) :
                LET o == Resolve([breakdown_list EXCEPT
                                     ![k].status.allocationSet = Reorder(@, p)],
                                 resources0)
                IN  /\ (exc = NoExc) <=> (o.exc = NoExc)
                    /\ exc = NoExc =>
                           /\ NnfCapacity(resources) = NnfCapacity(o.resources)
                           /\ CountType(resources, "globalnnf")
                                  = CountType(o.resources, "globalnnf")

(***************************************************************************)
(* Properties of build_allocation_sets, checked under SpecBuild.           *)
(***************************************************************************)
OnlyPerCompute ==
    \A i \in 1..Len(allocation_sets) :
        allocation_sets[i].label \in {"xfs", "gfs2", "raw"}

\* floor(localAllocations[server] * percentageOfTotal / nodesPerServer[server])
\* for allocation i and server j, the product and the quotient evaluated in
\* floats from left to right
FloorShare(i, j) ==
    Small(FTrunc(FDiv(FMul(IntToFloat(Big(local_allocations[j].bytes)),
                           allocation_sets[i].percentage_of_total),
                      IntToFloat(Big(nodes_per_nnf[local_allocations[j].name])))))

SomePairShort ==
    \E i \in 1..Len(allocation_sets) :
        \E j \in 1..Len(local_allocations) :
            FloorShare(i, j) < allocation_sets[i].minimumCapacity

ExpectedEntry(i, j) ==
    [allocationSize |-> FloorShare(i, j),
     label          |-> allocation_sets[i].label,
     storage        |-> <<[allocationCount |-> nodes_per_nnf[local_allocations[j].name],
                           name            |-> local_allocations[j].name]>>]

\* one entry per (allocation, server) pair, allocation-major
ExpectedRet ==
    [n \in 1..(Len(allocation_sets) * Len(local_allocations)) |->
        ExpectedEntry(((n - 1) \div Len(local_allocations)) + 1,
                      ((n - 1) % Len(local_allocations)) + 1)]

\* C7: with per-compute labels only, build_allocation_sets fails with the
\* capacity error if and only if some (allocation, server) pair has
\* floor(local * percentage / nodes) < minimumCapacity; otherwise it returns
\* one entry per pair, allocation-major, each with that floor value as
\* allocationSize, the allocation's label and the single storage element
\* {allocationCount: nodes, name: server}.
C7_BuildAllocationSets ==
    OnlyPerCompute =>
        /\ pc \in {"build", "raised", "returned"}
        /\ pc = "raised" => exc = CapacityError /\ SomePairShort
        /\ pc = "returned" =>
               /\ ~SomePairShort
               /\ ret = ExpectedRet
               /\ \A n \in 1..Len(ret) :
                      ret[n].allocationSize
                          >= allocation_sets[((n - 1) \div Len(local_allocations)) + 1]
                                 .minimumCapacity
        /\ pc = "build" =>
               \/ ai <= Len(allocation_sets) /\ si <= Len(local_allocations)
               \/ ENABLED (BuildNextAllocation \/ BuildReturn)

C7_Witness ==
    /\ OnlyPerCompute
    /\ pc = "returned"
    /\ Len(allocation_sets) = 2
    /\ Len(local_allocations) = 2
    /\ Len(ret) = 4
    /\ ret[1].allocationSize = 300
    /\ allocation_sets[1].minimumCapacity = 300
    /\ ret[4].allocationSize = 333
    /\ ret[4].storage = <<[allocationCount |-> 1, name |-> "nnfA"]>>

\* C11: when the first allocation given to build_allocation_sets has a label
\* that is not per-compute, the call fails with the "not currently supported"
\* error and returns nothing, whatever local_allocations is (the empty
\* mapping included).
C11_UnsupportedFirstLabel ==
    (/\ allocation_sets # <<>>
     /\ allocation_sets[1].label \notin {"xfs", "gfs2", "raw"}) =>
        /\ pc \in {"build", "raised"}
        /\ pc = "raised" => exc = NotSupportedError
        /\ ret = <<>>

\* 0 < p and p <= 1, for a float p
InUnitInterval(p) ==
    /\ p.m # <<>>
    /\ p.q >= 0
    /\ ~BLess(ShiftL(<<1>>, p.q), p.m)

\* C12: once the first pass of apply_breakdowns has succeeded (minimumCapacity
\* a non-negative integer), the call returns successfully, and every
\* per-compute allocation's percentageOfTotal is greater than 0 and at most 1.
C12_PercentagesInUnitInterval ==
    /\ exc # ZeroDivisionError
    /\ \A i \in 1..Len(Flatten(breakdown_list)) :
           HasPercentage(Flatten(breakdown_list)[i]) =>
               InUnitInterval(Flatten(breakdown_list)[i].percentage_of_total)
    /\ pc = "returned" =>
           \A i \in PerComputeOf(Flatten(breakdown_list)) :
               HasPercentage(Flatten(breakdown_list)[i])

(***************************************************************************)
(* Properties of the capacity conversion, checked under SpecCap.           *)
(***************************************************************************)
\* the capacity the last call put into the tree: the ssd count of the entry
\* it appended, or the amount it added to the existing nnf entry
AppliedCapacity ==
    IF TheCall.allocation.label = "mgt"
    THEN resources[Len(resources)].with[1].with[1].count
    ELSE IF Len(TheCall.before) = 1
    THEN resources[2].with[1].count
    ELSE resources[2].with[1].count - TheCall.before[2].with[1].count

\* C13: the capacity applied to the tree is max(1, floor(minimumCapacity /
\* 2^30)): never 0, 1 for every minimumCapacity below 2 * 2^30, and n for
\* minimumCapacity = n * 2^30, n >= 1.
C13_CapacityConversion ==
    Called =>
        LET m == TheCall.allocation.minimumCapacity
            n == AppliedCapacity
        IN  /\ TheCall.exc = NoExc
            /\ n >= 1
            /\ BLess(BytesBig(m), ShiftL(Big(2), 30)) => n = 1
            /\ ~BLess(BytesBig(m), ShiftL(Big(1), 30)) =>
                   /\ ~BLess(BytesBig(m), ShiftL(Big(n), 30))
                   /\ BLess(BytesBig(m), ShiftL(Big(n + 1), 30))
            /\ \A k \in 1..MaxCapGiB : BytesBig(m) = ShiftL(Big(k), 30) => n = k

C13_Witness ==
    /\ Called
    /\ TheCall.allocation.label = "xfs"
    /\ TheCall.allocation.minimumCapacity = Bytes(0, 100)
    /\ TheCall.before = <<NodeEntry>>
    /\ resources = <<NodeEntry, NnfOf(1)>>

(***************************************************************************)
(* Properties of one resolution, checked under Spec.                       *)
(***************************************************************************)
\* C14: in a resolution that starts from [node], once a per-compute
\* allocation has been applied (the tree's second entry is the nnf entry),
\* every later valid per-compute allocation succeeds and adds its capacity to
\* that nnf entry, whatever valid allocations were applied in between.
C14_LaterPerComputeAggregates ==
    (/\ resources0 = <<NodeEntry>>
     /\ Called
     /\ IsValidPerCompute(TheCall.allocation)
     /\ Len(TheCall.before) >= 2
     /\ TheCall.before[2].type = "nnf") =>
        /\ TheCall.exc = NoExc
        /\ resources =
               [TheCall.before EXCEPT ![2].with[1].count =
                   @ + CapacityGiB(TheCall.allocation.minimumCapacity)]

FirstPassErrors ==
    {KindError, NotReadyError, StrategyError, LabelKeyError, UnknownLabelError,
     StructureError, TreeIndexError}

\* the allocations that precede the point where the first pass raised, in
\* breakdown order and then allocationSet order
AppliedPrefix ==
    Flatten(SubSeq(breakdown_list, 1, bi - 1))
        \o (IF exc \in {KindError, NotReadyError} THEN <<>>
            ELSE SubSeq(breakdown_list[bi].status.allocationSet, 1, ai - 1))

\* C15: when apply_breakdowns fails in its first pass, the tree is the result
\* of applying, in order, the allocations that precede the failure point:
\* nothing is rolled back, and the failing allocation and those after it
\* change nothing.
C15_NoRollback ==
    (pc = "raised" /\ exc \in FirstPassErrors) =>
        /\ ApplySet(AppliedPrefix, resources0) = Outcome(NoExc, resources)
        /\ ncalls = Len(AppliedPrefix)
                        + (IF exc \in {KindError, NotReadyError} THEN 0 ELSE 1)

C15_Witness ==
    /\ pc = "raised"
    /\ exc = StructureError
    /\ resources0 = <<NodeEntry>>
    /\ Len(AppliedPrefix) = 2
    /\ Len(resources) = 3
    /\ resources[3].type = "globalnnf"

\* C16: the lookup is called once per breakdown reference, in reference
\* order, and every fetch is over before any kind or ready check and before
\* any mutation of the tree; if a fetch fails, apply_breakdowns raises that
\* failure, fetches no later reference and leaves the tree unchanged.
C16_FetchAllFirst ==
    /\ Len(lookups) <= Len(workflow)
    /\ lookups = SubSeq(workflow, 1, Len(lookups))
    /\ Len(lookups) = Len(breakdown_list) + (IF exc = LookupFailure THEN 1 ELSE 0)
    /\ pc \in {"check", "apply", "annotate", "returned"} => lookups = workflow
    /\ (\/ ncalls > 0
        \/ resources # resources0
        \/ exc \in FirstPassErrors \cup {ZeroDivisionError}) => lookups = workflow
    /\ exc = LookupFailure =>
           /\ pc = "raised"
           /\ resources = resources0
           /\ ncalls = 0
    /\ pc = "raised" => ~ENABLED (FetchBreakdown \/ FetchFails)

C16_Witness ==
    /\ Len(workflow) = 2
    /\ lookups = <<workflow[1]>>
    /\ breakdown_list = <<>>
    /\ pc = "raised"
    /\ exc = LookupFailure
    /\ resources = resources0

(***************************************************************************)
(* The frame of _apply_allocation, checked under SpecAlloc.                *)
(***************************************************************************)
\* C17: whatever the call (successful or failing) and whatever calls came
\* before it, _apply_allocation leaves the first entry as it was, removes and
\* reorders nothing, and lengthens the tree by at most one entry; the only
\* change to an existing entry is an increase of the ssd count of the nnf
\* entry that is second in a two-entry tree.
C17_TreeFrame ==
    Called =>
        /\ Len(resources) \in {Len(TheCall.before), Len(TheCall.before) + 1}
        /\ Len(TheCall.before) >= 1 => resources[1] = TheCall.before[1]
        /\ \A i \in 1..Len(TheCall.before) :
               \/ resources[i] = TheCall.before[i]
               \/ /\ i = 2
                  /\ Len(TheCall.before) = 2
                  /\ Len(resources) = 2
                  /\ TheCall.before[2].type = "nnf"
                  /\ resources[2].with[1].count > TheCall.before[2].with[1].count
                  /\ resources[2] =
                         [TheCall.before[2] EXCEPT
                             !.with[1].count = resources[2].with[1].count]

C17_Witness ==
    /\ Called
    /\ ncalls = 3
    /\ resources0 = <<NodeEntry>>
    /\ TheCall.before = <<NodeEntry, NnfOf(2)>>
    /\ TheCall.exc = NoExc
    /\ resources = <<NodeEntry, NnfOf(4)>>

NoPercentages ==
    \A i \in 1..Len(Flatten(breakdown_list)) :
        ~HasPercentage(Flatten(breakdown_list)[i])

\* C18: a percentage is written only in the second pass, which starts after
\* every allocation of every breakdown has been applied; so when
\* apply_breakdowns fails at a kind check, a ready check, a validation or a
\* structural check, no allocation of any fetched breakdown has a
\* percentageOfTotal.
C18_NoPercentageOnFirstPassFailure ==
    /\ (\/ pc \in {"fetch", "check", "apply"}
        \/ pc = "raised" /\ exc \in FirstPassErrors) => NoPercentages
    /\ (pc = "annotate" \/ ~NoPercentages) =>
           /\ Len(breakdown_list) = Len(workflow)
           /\ ncalls = Len(Flatten(breakdown_list))

C18_Witness ==
    /\ pc = "raised"
    /\ exc = StrategyError
    /\ Len(breakdown_list) = 2
    /\ bi = 2
    /\ ncalls = 2
    /\ IsValidPerCompute(Flatten(breakdown_list)[1])
    /\ NoPercentages
=============================================================================
